---- MODULE Spec2Model ----
(***************************************************************************)
(* Model of src/app.py: a Streamlit dashboard that loads a CSV of sales,   *)
(* filters it by product and date range, aggregates it per month           *)
(* (calcular_metricas) and renders three charts.                           *)
(*                                                                         *)
(* Values.  A timestamp is [mes, dia, hora]: mes is the ordinal of the     *)
(* calendar month (the year is folded into it), dia the day of the month,  *)
(* hora the time of day.  pandas' NaT is the timestamp with all fields 0.  *)
(* A float is the exact fraction [num, den] in lowest terms with den > 0;  *)
(* den = 0 encodes the IEEE specials: 0/0 is NaN, 1/0 is +inf, -1/0 is     *)
(* -inf.  Rounding of finite floats is not modelled.                       *)
(***************************************************************************)
EXTENDS Integers, Sequences, FiniteSets, TLC

\* Bounds of the input space.
MaxMes == 3
MaxMesArquivo == 2
MaxDia == 2
MaxHora == 1
MaxVenda == 1
MaxLinhas == 2
MaxRegistros == 3

VARIABLES pc, arquivo, carregado, df, selecionados, inicio, fim,
          total, media, crescimento_total, vendas_mensais, bar, tela

vars == <<pc, arquivo, carregado, df, selecionados, inicio, fim,
          total, media, crescimento_total, vendas_mensais, bar, tela>>

----------------------------------------------------------------------------
\* Floats

NaN == [num |-> 0, den |-> 0]
Inf == [num |-> 1, den |-> 0]
NegInf == [num |-> -1, den |-> 0]

Abs(x) == IF x < 0 THEN -x ELSE x

RECURSIVE GCD(_, _)
GCD(a, b) == IF b = 0 THEN a ELSE GCD(b, a % b)

\* the finite float n/d, d # 0
Frac(n, d) ==
    LET g == GCD(Abs(n), Abs(d))
        s == IF d < 0 THEN -1 ELSE 1
    IN [num |-> (s * n) \div g, den |-> (s * d) \div g]

FloatOf(n) == [num |-> n, den |-> 1]

IsNaN(x) == x.den = 0 /\ x.num = 0
IsFinite(x) == x.den > 0

\* IEEE division x / y as numpy does it on float64 (no exception on y = 0)
FDiv(x, y) ==
    IF IsNaN(x) \/ IsNaN(y) THEN NaN
    ELSE IF ~IsFinite(x) /\ ~IsFinite(y) THEN NaN
    ELSE IF ~IsFinite(x) THEN (IF y.num < 0 THEN [num |-> -x.num, den |-> 0] ELSE x)
    ELSE IF ~IsFinite(y) THEN FloatOf(0)
    ELSE IF y.num = 0
         THEN (IF x.num = 0 THEN NaN ELSE IF x.num > 0 THEN Inf ELSE NegInf)
    ELSE Frac(x.num * y.den, x.den * y.num)

\* x - k for an integer k
FSubInt(x, k) == IF IsFinite(x) THEN Frac(x.num - k * x.den, x.den) ELSE x

\* x * k for an integer k > 0
FMulInt(x, k) == IF IsFinite(x) THEN Frac(x.num * k, x.den) ELSE x

\* x >= 0 (False on NaN)
FGeqZero(x) == IF IsNaN(x) THEN FALSE ELSE x.num >= 0

----------------------------------------------------------------------------
\* Timestamps, dates and periods

NaT == [mes |-> 0, dia |-> 0, hora |-> 0]
NaTPeriod == 0
NoDate == [mes |-> 0, dia |-> 0]

\* the timestamps of an uploaded file, and the dates the date pickers offer
Timestamps == [mes : 1..MaxMesArquivo, dia : 1..MaxDia, hora : 0..MaxHora]
Datas == [mes : 1..MaxMesArquivo, dia : 1..MaxDia]

\* position of a timestamp on the time line (Timestamp.value)
TsOrd(t) == (t.mes * (MaxDia + 1) + t.dia) * (MaxHora + 1) + t.hora

\* Series >= Timestamp, Series <= Timestamp: False on NaT
TsGeq(a, b) == a # NaT /\ b # NaT /\ TsOrd(a) >= TsOrd(b)
TsLeq(a, b) == a # NaT /\ b # NaT /\ TsOrd(a) <= TsOrd(b)

\* Series.dt.to_period("M")
ToPeriodM(t) == IF t = NaT THEN NaTPeriod ELSE t.mes

\* Timestamp.date(), as st.date_input returns it
DateOf(t) == [mes |-> t.mes, dia |-> t.dia]

\* pd.to_datetime(datetime.date): midnight of that day
ToDatetime(d) == [mes |-> d.mes, dia |-> d.dia, hora |-> 0]

\* Period.astype(str)
MesStr(m) == "M" \o ToString(m)

----------------------------------------------------------------------------
\* Sequences

RECURSIVE SumSeq(_)
SumSeq(s) == IF s = <<>> THEN 0 ELSE Head(s) + SumSeq(Tail(s))

RECURSIVE FilterSeq(_, _)
FilterSeq(s, keep) ==
    IF s = <<>> THEN <<>>
    ELSE IF keep[Head(s)] THEN <<Head(s)>> \o FilterSeq(Tail(s), keep)
    ELSE FilterSeq(Tail(s), keep)

RECURSIVE SortAsc(_)
SortAsc(S) ==
    IF S = {} THEN <<>>
    ELSE LET m == CHOOSE x \in S : \A y \in S : x <= y
         IN <<m>> \o SortAsc(S \ {m})

Range(s) == {s[i] : i \in 1..Len(s)}

RECURSIVE SeqsUpTo(_, _)
SeqsUpTo(S, n) ==
    IF n = 0 THEN {<<>>}
    ELSE LET shorter == SeqsUpTo(S, n - 1)
         IN shorter \cup {Append(s, x) : s \in {t \in shorter : Len(t) = n - 1}, x \in S}

----------------------------------------------------------------------------
\* The uploaded file

Produtos == {"A", "B"}
Colunas == {"Data", "Produto", "Venda_Total"}

Nenhum == [presente |-> FALSE, colunas |-> {}, linhas |-> <<>>]

\* the rows a CSV can hold: an empty or missing date cell parses to NaT
Linhas == [Data : Timestamps \cup {NaT}, Produto : Produtos, Venda_Total : 0..MaxVenda]

\* the files the uploader can hand over: all three columns, or one missing
Arquivos ==
    {[presente |-> TRUE, colunas |-> c, linhas |-> l] :
        c \in {Colunas} \cup {Colunas \ {x} : x \in Colunas},
        l \in SeqsUpTo(Linhas, MaxLinhas)}

----------------------------------------------------------------------------
\* carregar_dados

carregar_dados(arq) ==
    [i \in 1..Len(arq.linhas) |->
        [Data |-> arq.linhas[i].Data,
         Produto |-> arq.linhas[i].Produto,
         Venda_Total |-> arq.linhas[i].Venda_Total,
         Mes |-> ToPeriodM(arq.linhas[i].Data)]]

----------------------------------------------------------------------------
\* The filter of main

\* df["Produto"].unique()
Unique(d) == {d[i].Produto : i \in 1..Len(d)}

\* df[df["Produto"].isin(selecionados)]
FiltrarProdutos(d, sel) == FilterSeq(d, [r \in Range(d) |-> r.Produto \in sel])

\* df["Data"].min(), df["Data"].max(): NaT is skipped, NaT when nothing is left
DataMin(d) ==
    LET S == {d[i].Data : i \in 1..Len(d)} \ {NaT}
    IN IF S = {} THEN NaT ELSE CHOOSE x \in S : \A y \in S : TsOrd(x) <= TsOrd(y)

DataMax(d) ==
    LET S == {d[i].Data : i \in 1..Len(d)} \ {NaT}
    IN IF S = {} THEN NaT ELSE CHOOSE x \in S : \A y \in S : TsOrd(x) >= TsOrd(y)

\* the range test written as "not before the start and not after the end",
\* which lets a NaT date through
NoIntervalo_NaTPassa(t, ini, f) ==
    t = NaT \/ (TsOrd(t) >= TsOrd(ToDatetime(ini)) /\ TsOrd(t) <= TsOrd(ToDatetime(f)))

\* (df["Data"] >= pd.to_datetime(inicio)) & (df["Data"] <= pd.to_datetime(fim))
NoIntervalo(t, ini, f) == TsGeq(t, ToDatetime(ini)) /\ TsLeq(t, ToDatetime(f))

FiltrarDatas(d, ini, f) == FilterSeq(d, [r \in Range(d) |-> NoIntervalo(r.Data, ini, f)])

----------------------------------------------------------------------------
\* calcular_metricas

\* the keys of df.groupby("Mes"): rows whose key is NaT are dropped
GroupKeys(d) == {d[i].Mes : i \in 1..Len(d)} \ {NaTPeriod}

\* groupby(sort=False): the keys in order of first appearance
RECURSIVE PrimeiraAparicao(_, _)
PrimeiraAparicao(s, seen) ==
    IF s = <<>> THEN <<>>
    ELSE IF Head(s) \in seen THEN PrimeiraAparicao(Tail(s), seen)
    ELSE <<Head(s)>> \o PrimeiraAparicao(Tail(s), seen \cup {Head(s)})

GroupOrder_Aparicao(d) == PrimeiraAparicao([i \in 1..Len(d) |-> d[i].Mes], {NaTPeriod})

\* groupby sorts the keys
GroupOrder(d) == SortAsc(GroupKeys(d))

\* ["Venda_Total"].sum() of one group
GroupSum(d, m) == SumSeq([i \in 1..Len(d) |-> IF d[i].Mes = m THEN d[i].Venda_Total ELSE 0])

\* Series.shift(1) of the monthly totals, as floats
Shift(s) == [i \in 1..Len(s) |-> IF i = 1 THEN NaN ELSE FloatOf(s[i - 1])]

\* the change taken relative to the current month instead of the previous one
PctChange100_SobreAtual(s) ==
    [i \in 1..Len(s) |->
        IF i = 1 THEN NaN
        ELSE FMulInt(FDiv(FloatOf(s[i] - s[i - 1]), FloatOf(s[i])), 100)]

\* Series.pct_change() * 100
PctChange100(s) ==
    [i \in 1..Len(s) |-> FMulInt(FSubInt(FDiv(FloatOf(s[i]), Shift(s)[i]), 1), 100)]

VendasMensais(d) ==
    LET ks == GroupOrder(d)
        tot == [i \in 1..Len(ks) |-> GroupSum(d, ks[i])]
        cr == PctChange100(tot)
    IN [i \in 1..Len(ks) |->
           [Mes |-> ks[i], Venda_Total |-> tot[i], Mes_str |-> MesStr(ks[i]),
            Crescimento_Percentual |-> cr[i]]]

\* df["Venda_Total"].sum()
Total(d) == SumSeq([i \in 1..Len(d) |-> d[i].Venda_Total])

\* vendas_mensais["Venda_Total"].mean(): NaN on an empty series
Media(vm) ==
    IF Len(vm) = 0 THEN NaN
    ELSE Frac(SumSeq([i \in 1..Len(vm) |-> vm[i].Venda_Total]), Len(vm))

\* the length test off by one
CrescimentoTotal_MaisDeDois(vm) ==
    IF Len(vm) > 2
    THEN FMulInt(FSubInt(FDiv(FloatOf(vm[Len(vm)].Venda_Total),
                              FloatOf(vm[1].Venda_Total)), 1), 100)
    ELSE FloatOf(0)

\* lines 36-44
CrescimentoTotal(vm) ==
    IF Len(vm) > 1
    THEN FMulInt(FSubInt(FDiv(FloatOf(vm[Len(vm)].Venda_Total),
                              FloatOf(vm[1].Venda_Total)), 1), 100)
    ELSE FloatOf(0)

calcular_metricas(d) ==
    LET vm == VendasMensais(d)
    IN [total |-> Total(d), media |-> Media(vm),
        crescimento_total |-> CrescimentoTotal(vm), vendas_mensais |-> vm]

----------------------------------------------------------------------------
\* plot_crescimento_percentual: what it hands to ax.bar

\* vendas_mensais["Crescimento_Percentual"].dropna()
BarCrescimento(vm) ==
    LET cr == [i \in 1..Len(vm) |-> vm[i].Crescimento_Percentual]
    IN FilterSeq(cr, [x \in Range(cr) |-> ~IsNaN(x)])

\* vendas_mensais["Mes_str"].iloc[1:]
BarMeses(vm) == [k \in 1..(IF Len(vm) = 0 THEN 0 ELSE Len(vm) - 1) |-> vm[k + 1].Mes_str]

BarCores(cr) == [k \in 1..Len(cr) |-> IF FGeqZero(cr[k]) THEN "green" ELSE "red"]

\* np.broadcast_arrays(x, height) inside ax.bar: lengths must agree or one is 1
Broadcastable(m, n) == m = n \/ m = 1 \/ n = 1

NoBar == [chamado |-> FALSE, meses |-> <<>>, crescimento |-> <<>>, cores |-> <<>>]

----------------------------------------------------------------------------
\* main: one pass of the script, step by step.  tela is what the pass has
\* rendered so far, in order; an exception in any step is caught by the
\* handler of lines 176-177, which renders st.error and ends the pass.

Saidas == {"success", "dataframe", "metric_total", "metric_media", "metric_crescimento",
           "chart_vendas", "download_vendas", "chart_crescimento", "download_crescimento",
           "chart_combinado", "download_combinado"}

Init ==
    /\ pc = "inicio"
    /\ arquivo = Nenhum
    /\ carregado = <<>>
    /\ df = <<>>
    /\ selecionados = {}
    /\ inicio = NoDate
    /\ fim = NoDate
    /\ total = 0
    /\ media = NaN
    /\ crescimento_total = FloatOf(0)
    /\ vendas_mensais = <<>>
    /\ bar = NoBar
    /\ tela = <<>>

\* lines 137-140: the title, the uploader, and the test of its value
FileUploader ==
    /\ pc = "inicio"
    /\ \E a \in Arquivos \cup {Nenhum} :
        /\ arquivo' = a
        /\ pc' = IF a.presente THEN "carregar" ELSE "fim"
    /\ tela' = <<"title", "file_uploader">>
    /\ UNCHANGED <<carregado, df, selecionados, inicio, fim, total, media,
                   crescimento_total, vendas_mensais, bar>>

\* lines 142-143: df["Data"] raises KeyError when the column is absent
CarregarDados ==
    /\ pc = "carregar"
    /\ IF "Data" \in arquivo.colunas
       THEN /\ carregado' = carregar_dados(arquivo)
            /\ df' = carregar_dados(arquivo)
            /\ tela' = Append(tela, "success")
            /\ pc' = "produtos"
       ELSE /\ tela' = Append(tela, "error")
            /\ pc' = "fim"
            /\ UNCHANGED <<carregado, df>>
    /\ UNCHANGED <<arquivo, selecionados, inicio, fim, total, media,
                   crescimento_total, vendas_mensais, bar>>

\* lines 145-149: the multiselect offers the distinct products
MultiselectProdutos ==
    /\ pc = "produtos"
    /\ IF "Produto" \in arquivo.colunas
       THEN \E sel \in SUBSET Unique(df) :
            /\ selecionados' = sel
            /\ df' = FiltrarProdutos(df, sel)
            /\ tela' = Append(tela, "multiselect")
            /\ pc' = "datas"
       ELSE /\ tela' = Append(tela, "error")
            /\ pc' = "fim"
            /\ UNCHANGED <<df, selecionados>>
    /\ UNCHANGED <<arquivo, carregado, inicio, fim, total, media,
                   crescimento_total, vendas_mensais, bar>>

\* lines 151-159: st.date_input raises on a NaT default (it cannot format
\* it as a date); otherwise the user may leave the default or pick any date
DateInputs ==
    /\ pc = "datas"
    /\ IF DataMin(df) # NaT
       THEN \E ini \in Datas, f \in Datas :
            /\ inicio' = ini
            /\ fim' = f
            /\ df' = FiltrarDatas(df, ini, f)
            /\ tela' = tela \o <<"date_input_inicio", "date_input_fim", "dataframe">>
            /\ pc' = "metricas"
       ELSE /\ tela' = Append(tela, "error")
            /\ pc' = "fim"
            /\ UNCHANGED <<df, inicio, fim>>
    /\ UNCHANGED <<arquivo, carregado, selecionados, total, media,
                   crescimento_total, vendas_mensais, bar>>

\* lines 161-170: df["Venda_Total"] raises KeyError when the column is absent
Metricas ==
    /\ pc = "metricas"
    /\ IF "Venda_Total" \in arquivo.colunas
       THEN /\ total' = calcular_metricas(df).total
            /\ media' = calcular_metricas(df).media
            /\ crescimento_total' = calcular_metricas(df).crescimento_total
            /\ vendas_mensais' = calcular_metricas(df).vendas_mensais
            /\ tela' = tela \o <<"metric_total", "metric_media", "metric_crescimento">>
            /\ pc' = "plot_vendas"
       ELSE /\ tela' = Append(tela, "error")
            /\ pc' = "fim"
            /\ UNCHANGED <<total, media, crescimento_total, vendas_mensais>>
    /\ UNCHANGED <<arquivo, carregado, df, selecionados, inicio, fim, bar>>

\* line 172
PlotVendasMensais ==
    /\ pc = "plot_vendas"
    /\ tela' = tela \o <<"chart_vendas", "download_vendas">>
    /\ pc' = "plot_crescimento"
    /\ UNCHANGED <<arquivo, carregado, df, selecionados, inicio, fim, total, media,
                   crescimento_total, vendas_mensais, bar>>

\* line 173: ax.bar raises ValueError when the two lists do not broadcast
PlotCrescimentoPercentual ==
    /\ pc = "plot_crescimento"
    /\ bar' = [chamado |-> TRUE,
               meses |-> BarMeses(vendas_mensais),
               crescimento |-> BarCrescimento(vendas_mensais),
               cores |-> BarCores(BarCrescimento(vendas_mensais))]
    /\ IF Broadcastable(Len(BarMeses(vendas_mensais)), Len(BarCrescimento(vendas_mensais)))
       THEN /\ tela' = tela \o <<"chart_crescimento", "download_crescimento">>
            /\ pc' = "plot_combinado"
       ELSE /\ tela' = Append(tela, "error")
            /\ pc' = "fim"
    /\ UNCHANGED <<arquivo, carregado, df, selecionados, inicio, fim, total, media,
                   crescimento_total, vendas_mensais>>

\* line 174
PlotGraficoCombinado ==
    /\ pc = "plot_combinado"
    /\ tela' = tela \o <<"chart_combinado", "download_combinado">>
    /\ pc' = "fim"
    /\ UNCHANGED <<arquivo, carregado, df, selecionados, inicio, fim, total, media,
                   crescimento_total, vendas_mensais, bar>>

\* a user interaction reruns the script from the top
Rerun ==
    /\ pc = "fim"
    /\ pc' = "inicio"
    /\ arquivo' = Nenhum
    /\ carregado' = <<>>
    /\ df' = <<>>
    /\ selecionados' = {}
    /\ inicio' = NoDate
    /\ fim' = NoDate
    /\ total' = 0
    /\ media' = NaN
    /\ crescimento_total' = FloatOf(0)
    /\ vendas_mensais' = <<>>
    /\ bar' = NoBar
    /\ tela' = <<>>

Next ==
    \/ FileUploader
    \/ CarregarDados
    \/ MultiselectProdutos
    \/ DateInputs
    \/ Metricas
    \/ PlotVendasMensais
    \/ PlotCrescimentoPercentual
    \/ PlotGraficoCombinado
    \/ Rerun

Spec == Init /\ [][Next]_vars

----------------------------------------------------------------------------
\* calcular_metricas and the charts on their own: the pass stands at line
\* 161 with a frame that main's load and filter produced from a file of up
\* to MaxRegistros rows spread over MaxMes months.

RegistrosMetricas ==
    [Data : {[mes |-> m, dia |-> 1, hora |-> 0] : m \in 1..MaxMes} \cup {NaT},
     Produto : {"A"},
     Venda_Total : 0..MaxVenda]

InitMetricas ==
    \E l \in SeqsUpTo(RegistrosMetricas, MaxRegistros) :
        LET arq == [presente |-> TRUE, colunas |-> Colunas, linhas |-> l]
            lido == carregar_dados(arq)
            dmin == DataMin(FiltrarProdutos(lido, Unique(lido)))
            dmax == DataMax(FiltrarProdutos(lido, Unique(lido)))
        IN /\ dmin # NaT
           /\ \E par \in {<<DateOf(dmin), DateOf(dmax)>>, <<DateOf(dmax), DateOf(dmin)>>} :
               /\ inicio = par[1]
               /\ fim = par[2]
               /\ df = FiltrarDatas(FiltrarProdutos(lido, Unique(lido)), par[1], par[2])
           /\ arquivo = arq
           /\ carregado = lido
           /\ selecionados = Unique(lido)
           /\ pc = "metricas"
           /\ total = 0
           /\ media = NaN
           /\ crescimento_total = FloatOf(0)
           /\ vendas_mensais = <<>>
           /\ bar = NoBar
           /\ tela = <<"title", "file_uploader", "success", "multiselect",
                       "date_input_inicio", "date_input_fim", "dataframe">>

NextMetricas ==
    \/ Metricas
    \/ PlotVendasMensais
    \/ PlotCrescimentoPercentual
    \/ PlotGraficoCombinado

SpecMetricas == InitMetricas /\ [][NextMetricas]_vars

----------------------------------------------------------------------------
\* Properties

\* calcular_metricas has returned in this pass
MetricasFeitas == "metric_total" \in Range(tela)

\* the monthly totals of the returned aggregate
TotaisMensais == [i \in 1..Len(vendas_mensais) |-> vendas_mensais[i].Venda_Total]

\* g is the float (cur / prev - 1) * 100, stated without dividing
EhCrescimento(g, cur, prev) ==
    IF prev # 0
    THEN g.den > 0 /\ g.num * prev = (cur - prev) * 100 * g.den
    ELSE IF cur > 0 THEN g = Inf
    ELSE IF cur < 0 THEN g = NegInf
    ELSE g = NaN

\* position of a calendar date on the time line
DateOrd(d) == d.mes * (MaxDia + 1) + d.dia

\* C1: the grand total returned by calcular_metricas equals the sum of the
\* totals of the returned monthly rows, for every frame main's load and
\* filter can hand over.
C1_TotalIgualSomaMensal ==
    MetricasFeitas => total = SumSeq(TotaisMensais)

C1_Witness ==
    /\ MetricasFeitas
    /\ Len(df) = 3
    /\ Len(vendas_mensais) = 2
    /\ total = 3

\* C2: the filter keeps exactly the records whose product is selected and
\* whose calendar date lies in [inicio, fim], both days included whatever
\* the time of day, in their original order.
C2_FiltroInclusivo ==
    "dataframe" \in Range(tela) =>
        df = FilterSeq(carregado,
                [r \in Range(carregado) |->
                    /\ r.Produto \in selecionados
                    /\ r.Data # NaT
                    /\ DateOrd(inicio) <= DateOrd(DateOf(r.Data))
                    /\ DateOrd(DateOf(r.Data)) <= DateOrd(fim)])

\* C3: with every product selected and the default date range, the monthly
\* aggregate of the filtered records is the one of the loaded records.
C3_FiltroCompletoIdentidade ==
    (/\ MetricasFeitas
     /\ selecionados = Unique(carregado)
     /\ inicio = DateOf(DataMin(carregado))
     /\ fim = DateOf(DataMax(carregado)))
    => vendas_mensais = VendasMensais(carregado)

\* C4: a month of total 0 followed by a month of nonzero total reports, for
\* the later month, the same undefined value as the first month, and not 0.
C4_ZeroParaNaoZeroIndefinido ==
    MetricasFeitas =>
        \A i \in 2..Len(vendas_mensais) :
            (vendas_mensais[i - 1].Venda_Total = 0 /\ vendas_mensais[i].Venda_Total # 0)
            => /\ vendas_mensais[i].Crescimento_Percentual
                    = vendas_mensais[1].Crescimento_Percentual
               /\ vendas_mensais[i].Crescimento_Percentual # FloatOf(0)

\* C5: with an empty product selection the pass ends without an error
\* message, with no filtered record, no monthly row and a grand total of 0.
C5_SelecaoVaziaSemErro ==
    (/\ pc = "fim"
     /\ arquivo.colunas = Colunas
     /\ "multiselect" \in Range(tela)
     /\ selecionados = {})
    => /\ "error" \notin Range(tela)
       /\ df = <<>>
       /\ vendas_mensais = <<>>
       /\ total = 0
       /\ MetricasFeitas

\* C6: a pass in which a step raised ends showing exactly one error message
\* and none of the other outputs of the pass.
C6_ErroSemSaidaParcial ==
    (pc = "fim" /\ "error" \in Range(tela))
    => /\ Cardinality({i \in 1..Len(tela) : tela[i] = "error"}) = 1
       /\ Range(tela) \cap Saidas = {}

\* C7: the monthly rows are in strictly ascending month order and their
\* months are exactly the distinct months of the records' dates.
C7_MesesOrdenadosExatos ==
    MetricasFeitas =>
        /\ \A i \in 1..(Len(vendas_mensais) - 1) :
                vendas_mensais[i].Mes < vendas_mensais[i + 1].Mes
        /\ {vendas_mensais[i].Mes : i \in 1..Len(vendas_mensais)}
                = {df[i].Data.mes : i \in 1..Len(df)}

C7_Witness ==
    /\ MetricasFeitas
    /\ Len(df) = 3
    /\ df[1].Data.mes = 3
    /\ df[2].Data.mes = 1
    /\ df[3].Data.mes = 3
    /\ Len(vendas_mensais) = 2

\* C8: the first row's growth is undefined (not 0) and every later row's
\* growth is (total[i] / total[i-1] - 1) * 100 over the preceding row.
C8_CrescimentoMensal ==
    MetricasFeitas =>
        \A i \in 1..Len(vendas_mensais) :
            IF i = 1
            THEN /\ vendas_mensais[1].Crescimento_Percentual = NaN
                 /\ vendas_mensais[1].Crescimento_Percentual # FloatOf(0)
            ELSE EhCrescimento(vendas_mensais[i].Crescimento_Percentual,
                               vendas_mensais[i].Venda_Total,
                               vendas_mensais[i - 1].Venda_Total)

C8_Witness ==
    /\ MetricasFeitas
    /\ Len(vendas_mensais) = 2
    /\ vendas_mensais[1].Mes = 1 /\ vendas_mensais[2].Mes = 3
    /\ TotaisMensais = <<2, 1>>
    /\ vendas_mensais[1].Crescimento_Percentual = NaN
    /\ vendas_mensais[2].Crescimento_Percentual = FloatOf(-50)

\* C9: the overall growth is 0 with fewer than two monthly rows, and
\* otherwise (last total / first total - 1) * 100.
C9_CrescimentoTotal ==
    MetricasFeitas =>
        IF Len(vendas_mensais) < 2
        THEN crescimento_total = FloatOf(0)
        ELSE EhCrescimento(crescimento_total,
                           vendas_mensais[Len(vendas_mensais)].Venda_Total,
                           vendas_mensais[1].Venda_Total)

C9_Witness ==
    /\ MetricasFeitas
    /\ TotaisMensais = <<1, 1, 0>>
    /\ crescimento_total = FloatOf(-100)

\* C10: the bar chart gets one label and one growth value per row after the
\* first, position by position, each coloured by the sign of its growth.
C10_BarrasAlinhadas ==
    bar.chamado =>
        /\ Len(bar.meses) = Len(bar.crescimento)
        /\ Len(bar.cores) = Len(bar.crescimento)
        /\ Len(bar.meses) = (IF Len(vendas_mensais) = 0 THEN 0 ELSE Len(vendas_mensais) - 1)
        /\ \A k \in 1..Len(bar.crescimento) :
            /\ k + 1 <= Len(vendas_mensais)
            /\ bar.meses[k] = vendas_mensais[k + 1].Mes_str
            /\ bar.crescimento[k] = vendas_mensais[k + 1].Crescimento_Percentual
            /\ bar.cores[k] = (IF FGeqZero(bar.crescimento[k]) THEN "green" ELSE "red")

====
